---- MODULE Spec2Model ----
(***************************************************************************)
(* State-machine model of stellar-core-prometheus-exporter.py: one HTTP    *)
(* handler (StellarCoreHandler) per scrape request, run by a thread-per-   *)
(* request server.  Strings that the code inspects character by character  *)
(* (metric names, build strings, label values) are sequences of one-       *)
(* character strings.  JSON numbers are exact decimals <<m, e>> standing   *)
(* for m * 10^(-e); Python dicts are functions whose DOMAIN is the key set.*)
(***************************************************************************)
EXTENDS Integers, Sequences, FiniteSets, TLC

(* ------------------------------ bounds -------------------------------- *)

\* number of scrape requests in flight at once (one worker thread each)
NReq == 2

\* largest number of entries in one metrics snapshot
MaxEntries == 2

Requests == 1..NReq

(* --------------------------- string literals --------------------------- *)

PREFIX ==
    <<"s", "t", "e", "l", "l", "a", "r", "_", "c", "o", "r", "e", "_">>

SUFFIX_SECONDS ==
    <<"_", "s", "e", "c", "o", "n", "d", "s">>

SUFFIX_COUNT ==
    <<"_", "c", "o", "u", "n", "t">>

SUFFIX_SUM ==
    <<"_", "s", "u", "m">>

LEDGER_PREFIX ==
    PREFIX \o <<"l", "e", "d", "g", "e", "r", "_">>

QUORUM_PREFIX ==
    PREFIX \o <<"q", "u", "o", "r", "u", "m", "_">>

Q075 ==
    <<"0", ".", "7", "5">>

Q099 ==
    <<"0", ".", "9", "9">>

N_TRANSITIVE_INTERSECTION ==
    QUORUM_PREFIX \o <<"t", "r", "a", "n", "s", "i", "t", "i", "v", "e", "_",
                       "i", "n", "t", "e", "r", "s", "e", "c", "t", "i", "o", "n">>

N_TRANSITIVE_LAST_CHECK_LEDGER ==
    QUORUM_PREFIX \o <<"t", "r", "a", "n", "s", "i", "t", "i", "v", "e", "_",
                       "l", "a", "s", "t", "_", "c", "h", "e", "c", "k", "_",
                       "l", "e", "d", "g", "e", "r">>

N_TRANSITIVE_NODE_COUNT ==
    QUORUM_PREFIX \o <<"t", "r", "a", "n", "s", "i", "t", "i", "v", "e", "_",
                       "n", "o", "d", "e", "_", "c", "o", "u", "n", "t">>

N_PEERS_AUTHENTICATED_COUNT ==
    PREFIX \o <<"p", "e", "e", "r", "s", "_", "a", "u", "t", "h", "e", "n", "t",
                "i", "c", "a", "t", "e", "d", "_", "c", "o", "u", "n", "t">>

N_PEERS_PENDING_COUNT ==
    PREFIX \o <<"p", "e", "e", "r", "s", "_", "p", "e", "n", "d", "i", "n", "g",
                "_", "c", "o", "u", "n", "t">>

N_PROTOCOL_VERSION ==
    PREFIX \o <<"p", "r", "o", "t", "o", "c", "o", "l", "_", "v", "e", "r", "s",
                "i", "o", "n">>

N_SYNCED ==
    PREFIX \o <<"s", "y", "n", "c", "e", "d">>

N_STARTED_ON ==
    PREFIX \o <<"s", "t", "a", "r", "t", "e", "d", "_", "o", "n">>

STELLAR_CORE_LIT ==
    <<"s", "t", "e", "l", "l", "a", "r", "-", "c", "o", "r", "e">>

(* ------------------------- character classes --------------------------- *)

Digits ==
    {"0", "1", "2", "3", "4", "5", "6", "7", "8", "9"}

\* the characters the class \s of line 110 matches
Whitespace ==
    {" ", "\t", "\n", "\r"}

UpperCase ==
    <<"A", "B", "C", "D", "E", "F", "G", "H", "I", "J", "K", "L", "M",
      "N", "O", "P", "Q", "R", "S", "T", "U", "V", "W", "X", "Y", "Z">>

LowerCase ==
    <<"a", "b", "c", "d", "e", "f", "g", "h", "i", "j", "k", "l", "m",
      "n", "o", "p", "q", "r", "s", "t", "u", "v", "w", "x", "y", "z">>

IsDigit(c) == c \in Digits

IsHyphen(c) == c = "-"

NotSpace(c) == c # " "

\* the character classes of the two patterns and of lstrip
InClass(c, class) ==
    CASE class = "\\d" -> IsDigit(c)
      [] class = "[^ ]" -> NotSpace(c)
      [] class = "-" -> IsHyphen(c)

\* str.lower() on one character
Lower(c) ==
    IF \E i \in 1..26 : UpperCase[i] = c
    THEN LowerCase[CHOOSE i \in 1..26 : UpperCase[i] = c]
    ELSE c

\* re.sub('\.|-|\s', '_', k) on one character: every single match is replaced
Sub(c) ==
    IF c = "." \/ c = "-" \/ c \in Whitespace THEN "_" ELSE c

\* lines 110-111: metric_name = 'stellar_core_' + re.sub(...).lower()
metric_name(k) ==
    PREFIX \o [i \in 1..Len(k) |-> Lower(Sub(k[i]))]

\* first index j >= i of s that is past the end or whose character is not of the class
RunEnd(s, i, class) ==
    CHOOSE j \in i..(Len(s) + 1) :
        /\ \A k \in i..(j - 1) : InClass(s[k], class)
        /\ (j = Len(s) + 1 \/ ~InClass(s[j], class))

StartsWithAt(s, i, p) ==
    /\ i + Len(p) - 1 <= Len(s)
    /\ \A k \in 1..Len(p) : s[i + k - 1] = p[k]

\* str.lstrip('-'): every leading hyphen goes
LStripHyphen(s) ==
    SubSeq(s, RunEnd(s, 1, "-"), Len(s))

(* --------------------------- decimal numbers --------------------------- *)

\* <<m, e>> is m * 10^(-e); canonical form has no trailing zero digit while e > 0
RECURSIVE Canon(_)
Canon(x) ==
    IF x[1] = 0 THEN <<0, 0>>
    ELSE IF x[2] > 0 /\ x[1] % 10 = 0 THEN Canon(<<x[1] \div 10, x[2] - 1>>)
    ELSE x

Num(n) == <<n, 0>>

\* x * n for an integer n
Times(x, n) == Canon(<<x[1] * n, x[2]>>)

\* x / 10^p
DivPow10(x, p) == Canon(<<x[1], x[2] + p>>)

\* x * y for two decimals
Product(x, y) == Canon(<<x[1] * y[1], x[2] + y[2]>>)

(* ---------------------------- duration units --------------------------- *)

\* a value the code computed, or the exception its computation raised
Ok(v) == [exc |-> "none", val |-> v]

KeyError == [exc |-> "KeyError", val |-> Num(0)]

ValueError == [exc |-> "ValueError", val |-> Num(0)]

\* the keys of time_units_to_seconds
time_units ==
    {"d", "h", "m", "s", "ms", "us", "ns"}

duration_to_seconds_ms_as_us(duration, duration_unit) ==
    IF duration_unit \notin time_units
    THEN KeyError
    ELSE Ok(CASE duration_unit = "d"  -> Times(duration, 86400)
              [] duration_unit = "h"  -> Times(duration, 3600)
              [] duration_unit = "m"  -> Times(duration, 60)
              [] duration_unit = "s"  -> DivPow10(duration, 0)
              [] duration_unit = "ms" -> DivPow10(duration, 6)
              [] duration_unit = "us" -> DivPow10(duration, 6)
              [] duration_unit = "ns" -> DivPow10(duration, 9))

\* lines 47-57: eval of the expression stored under the unit; an unknown unit
\* is a KeyError raised by the dict lookup
duration_to_seconds(duration, duration_unit) ==
    IF duration_unit \notin time_units
    THEN KeyError
    ELSE Ok(CASE duration_unit = "d"  -> Times(duration, 86400)
              [] duration_unit = "h"  -> Times(duration, 3600)
              [] duration_unit = "m"  -> Times(duration, 60)
              [] duration_unit = "s"  -> DivPow10(duration, 0)
              [] duration_unit = "ms" -> DivPow10(duration, 3)
              [] duration_unit = "us" -> DivPow10(duration, 6)
              [] duration_unit = "ns" -> DivPow10(duration, 9))

(* ----------------------------- build regex ----------------------------- *)

NoMatch ==
    [matched |-> FALSE, g2 |-> <<>>, g3 |-> <<>>, g4 |-> <<>>, g5 |-> <<>>]

\* line 98 with re.match: '(stellar-core|v) ?(\d+)\.(\d+)\.(\d+)(-[^ ]+)?.*$'
\* g5 = <<>> stands for a group that did not take part (None); a group 5 that
\* takes part always starts with its hyphen.  Each \d+ and [^ ]+ takes its
\* whole run: giving characters back can never make the rest match.
build_regex_match(build) ==
    LET n  == Len(build)
        p1 == IF StartsWithAt(build, 1, STELLAR_CORE_LIT) THEN Len(STELLAR_CORE_LIT) + 1
              ELSE IF StartsWithAt(build, 1, <<"v">>) THEN 2
              ELSE 0
        p2 == IF p1 <= n /\ build[p1] = " " THEN p1 + 1 ELSE p1
        e2 == RunEnd(build, p2, "\\d")
        p3 == e2 + 1
        e3 == RunEnd(build, p3, "\\d")
        p4 == e3 + 1
        e4 == RunEnd(build, p4, "\\d")
        r5 == RunEnd(build, e4 + 1, "[^ ]")
    IN  IF p1 = 0 THEN NoMatch
        ELSE IF ~(e2 > p2 /\ e2 <= n /\ build[e2] = ".") THEN NoMatch
        ELSE IF ~(e3 > p3 /\ e3 <= n /\ build[e3] = ".") THEN NoMatch
        ELSE IF ~(e4 > p4) THEN NoMatch
        ELSE [matched |-> TRUE,
              g2 |-> SubSeq(build, p2, e2 - 1),
              g3 |-> SubSeq(build, p3, e3 - 1),
              g4 |-> SubSeq(build, p4, e4 - 1),
              g5 |-> IF e4 <= n /\ build[e4] = "-" /\ r5 > e4 + 1
                     THEN SubSeq(build, e4, r5 - 1)
                     ELSE <<>>]

(* ------------------- prometheus_client, as the code uses it ------------ *)

\* line 101
label_names ==
    <<"ver_major", "ver_minor", "ver_patch", "ver_extra">>

One == Ok(Num(1))

Zero == Ok(Num(0))

\* d[k] of a dict of numbers: KeyError when the key is absent
Lookup(d, k) ==
    IF k \in DOMAIN d THEN Ok(Num(d[k])) ELSE KeyError

\* m * 10^p
RECURSIVE Shift(_, _)
Shift(m, p) == IF p = 0 THEN m ELSE Shift(m * 10, p - 1)

Sum(x, y) ==
    LET e == IF x[2] > y[2] THEN x[2] ELSE y[2]
    IN  Canon(<<Shift(x[1], e - x[2]) + Shift(y[1], e - y[2]), e>>)

\* index of the collector object last constructed under this name
CollectorAt(reg, name) ==
    CHOOSE i \in 1..Len(reg) :
        /\ reg[i].name = name
        /\ \A j \in (i + 1)..Len(reg) : reg[j].name # name

RegisterNoDuplicateCheck(st, thread, name, kind, labelnames) ==
    IF st.exc # "none" THEN st
    ELSE [st EXCEPT !.reg = Append(@, [name |-> name, kind |-> kind,
                                        labelnames |-> labelnames,
                                        samples |-> <<>>, thread |-> thread])]

\* Gauge(name, doc, labelnames, registry=self.registry) and Counter(...):
\* the constructor registers the new collector and the registry refuses a
\* name it already holds (ValueError).  A statement after an exception does
\* not run.
Register(st, thread, name, kind, labelnames) ==
    IF st.exc # "none" THEN st
    ELSE IF \E i \in 1..Len(st.reg) : st.reg[i].name = name
    THEN [st EXCEPT !.exc = "ValueError"]
    ELSE [st EXCEPT !.reg = Append(@, [name |-> name, kind |-> kind,
                                        labelnames |-> labelnames,
                                        samples |-> <<>>, thread |-> thread])]

\* c.labels(*labelvalues).inc(v) and g.labels(*labelvalues).set(v), in
\* Python's order: labels() is called first (ValueError on a wrong number of
\* label values), then the argument is evaluated (v carries its exception),
\* then the child is updated (inc of a negative amount is a ValueError).
Observe(st, name, labelvalues, how, v) ==
    IF st.exc # "none" THEN st
    ELSE LET i == CollectorAt(st.reg, name)
             c == st.reg[i]
             old == {j \in 1..Len(c.samples) : c.samples[j].labels = labelvalues}
         IN  IF Len(labelvalues) # Len(c.labelnames)
             THEN [st EXCEPT !.exc = "ValueError"]
             ELSE IF v.exc # "none" THEN [st EXCEPT !.exc = v.exc]
             ELSE IF how = "inc" /\ v.val[1] < 0
             THEN [st EXCEPT !.exc = "ValueError"]
             ELSE IF old = {}
             THEN [st EXCEPT !.reg[i].samples =
                       Append(@, [labels |-> labelvalues, value |-> v.val])]
             ELSE LET j == CHOOSE j \in old : TRUE
                  IN  [st EXCEPT !.reg[i].samples[j].value =
                           IF how = "inc" THEN Sum(@, v.val) ELSE v.val]

\* one collector of the text exposition: its TYPE line, then one line per
\* sample with the label names zipped to the label values
CollectorLines(c) ==
    <<[line |-> "TYPE", name |-> c.name, kind |-> c.kind,
       labels |-> <<>>, value |-> Num(0)]>>
    \o [j \in 1..Len(c.samples) |->
          [line |-> "SAMPLE", name |-> c.name, kind |-> c.kind,
           labels |-> [n \in 1..Len(c.labelnames) |->
                          <<c.labelnames[n], c.samples[j].labels[n]>>],
           value |-> c.samples[j].value]]

\* line 220: generate_latest(self.registry)
RECURSIVE generate_latest(_)
generate_latest(reg) ==
    IF reg = <<>> THEN <<>>
    ELSE CollectorLines(Head(reg)) \o generate_latest(Tail(reg))

CONTENT_TYPE_LATEST == "text/plain; version=0.0.4; charset=utf-8"

(* ------------------------------ get_labels ------------------------------ *)

\* a reply of an upstream endpoint: the request raised, the body is not
\* JSON, or the decoded document
NoJson == [k \in {} |-> 0]

TransportError == [status |-> "transport_error", json |-> NoJson]

NotJson == [status |-> "not_json", json |-> NoJson]

Json(doc) == [status |-> "json", json |-> doc]

\* lines 64-86; [] is the empty sequence, and so is the string ''
get_labels(response) ==
    IF response.status # "json" THEN <<>>
    ELSE IF "info" \notin DOMAIN response.json THEN <<>>
    ELSE IF "build" \notin DOMAIN response.json.info THEN <<>>
    ELSE LET match == build_regex_match(response.json.info.build)
             ver_extra == IF match.g5 = <<>> THEN <<>>
                          ELSE LStripHyphen(match.g5)
         IN  IF ~match.matched THEN <<>>
             ELSE <<match.g2, match.g3, match.g4, ver_extra>>

(* ------------------------- the metrics loop body ------------------------ *)

\* line 132: self.label_names + ['quantile']
summary_label_names ==
    label_names \o <<"quantile">>

QuantileFirst(labels, q) == <<q>> \o labels

\* lines 133-134: self.labels + ['0.75']
QuantileLabels(labels, q) == labels \o <<q>>

\* lines 113-134: a timer
TranslateTimer(st, thread, name, e, labels) ==
    LET base  == name \o SUFFIX_SECONDS
        total == IF "sum" \in DOMAIN e THEN e.sum
                 ELSE Product(e.mean, e.count)
        s1 == Register(st, thread, base \o SUFFIX_COUNT, "counter", label_names)
        s2 == Observe(s1, base \o SUFFIX_COUNT, labels, "inc", Ok(e.count))
        s3 == Register(s2, thread, base \o SUFFIX_SUM, "counter", label_names)
        s4 == Observe(s3, base \o SUFFIX_SUM, labels, "inc",
                      duration_to_seconds(total, e.duration_unit))
        s5 == Register(s4, thread, base, "gauge", summary_label_names)
        s6 == Observe(s5, base, QuantileLabels(labels, Q075), "set",
                      duration_to_seconds(e.p75, e.duration_unit))
    IN  Observe(s6, base, QuantileLabels(labels, Q099), "set",
                duration_to_seconds(e.p99, e.duration_unit))

TranslateCounterAsCounter(st, thread, name, e, labels) ==
    Observe(Register(st, thread, name, "counter", label_names),
            name, labels, "inc", Ok(e.count))

\* lines 135-138: a counter is exposed as a Gauge
TranslateCounter(st, thread, name, e, labels) ==
    Observe(Register(st, thread, name, "gauge", label_names),
            name, labels, "set", Ok(e.count))

\* lines 139-142: a meter is exposed as a Counter
TranslateMeter(st, thread, name, e, labels) ==
    Observe(Register(st, thread, name, "counter", label_names),
            name, labels, "inc", Ok(e.count))

\* lines 109-142: one iteration of "for k in metrics"; an entry of any other
\* type falls through the if/elif chain
TranslateEntry(st, thread, k, e, labels) ==
    IF e.type = "timer" THEN TranslateTimer(st, thread, metric_name(k), e, labels)
    ELSE IF e.type = "counter" THEN TranslateCounter(st, thread, metric_name(k), e, labels)
    ELSE IF e.type = "meter" THEN TranslateMeter(st, thread, metric_name(k), e, labels)
    ELSE st

(* --------------------------- the info metrics --------------------------- *)

\* line 89
info_keys ==
    {"ledger", "peers", "protocol_version", "quorum", "startedOn", "state"}

\* lines 90-92: core name and the gauge name made from the Prometheus name
ledger_metrics ==
    << [core |-> "age",          name |-> LEDGER_PREFIX \o <<"a", "g", "e">>],
       [core |-> "baseFee",      name |-> LEDGER_PREFIX \o <<"b", "a", "s", "e", "_", "f", "e", "e">>],
       [core |-> "baseReserve",  name |-> LEDGER_PREFIX \o <<"b", "a", "s", "e", "_", "r", "e", "s", "e", "r", "v", "e">>],
       [core |-> "closeTime",    name |-> LEDGER_PREFIX \o <<"c", "l", "o", "s", "e", "_", "t", "i", "m", "e">>],
       [core |-> "maxTxSetSize", name |-> LEDGER_PREFIX \o <<"m", "a", "x", "_", "t", "x", "_", "s", "e", "t", "_", "s", "i", "z", "e">>],
       [core |-> "num",          name |-> LEDGER_PREFIX \o <<"n", "u", "m">>],
       [core |-> "version",      name |-> LEDGER_PREFIX \o <<"v", "e", "r", "s", "i", "o", "n">>] >>

\* line 93, with the gauge name of lines 172-174
quorum_metrics ==
    << [core |-> "agree",    name |-> QUORUM_PREFIX \o <<"a", "g", "r", "e", "e">>],
       [core |-> "delayed",  name |-> QUORUM_PREFIX \o <<"d", "e", "l", "a", "y", "e", "d">>],
       [core |-> "disagree", name |-> QUORUM_PREFIX \o <<"d", "i", "s", "a", "g", "r", "e", "e">>],
       [core |-> "fail_at",  name |-> QUORUM_PREFIX \o <<"f", "a", "i", "l", "_", "a", "t">>],
       [core |-> "missing",  name |-> QUORUM_PREFIX \o <<"m", "i", "s", "s", "i", "n", "g">>] >>

\* g = Gauge(name, ...); g.labels(*self.labels).set(value), one after another
RECURSIVE SetGauges(_, _, _, _)
SetGauges(st, thread, labels, gs) ==
    IF gs = <<>> THEN st
    ELSE SetGauges(Observe(Register(st, thread, Head(gs).name, "gauge", label_names),
                           Head(gs).name, labels, "set", Head(gs).val),
                   thread, labels, Tail(gs))

\* the gauges of one dict of numbers, in the order of the name table
GaugesOf(d, table) ==
    [i \in 1..Len(table) |-> [name |-> table[i].name, val |-> Lookup(d, table[i].core)]]

\* the outcomes of lines 167-170 that are an exception
TmpKeyError == {[exc |-> "KeyError", tmp |-> NoJson]}

TmpTypeError == {[exc |-> "TypeError", tmp |-> NoJson]}

TmpIndexError == {[exc |-> "IndexError", tmp |-> NoJson]}

\* lines 167-170.  info['quorum'].values()[0]: under Python 3 values() is a
\* view and the subscript is a TypeError; under Python 2 it is a list in the
\* dict's own order, so any value may come first, and an empty dict is an
\* IndexError.
quorum_tmp(quorum, py) ==
    IF "qset" \in DOMAIN quorum
    THEN {[exc |-> "none", tmp |-> quorum["qset"]]}
    ELSE IF py = 3 THEN TmpTypeError
    ELSE IF DOMAIN quorum = {} THEN TmpIndexError
    ELSE {[exc |-> "none", tmp |-> quorum[k]] : k \in DOMAIN quorum}

\* statement that only raises
Then(st, e) ==
    IF st.exc # "none" \/ e = "none" THEN st ELSE [st EXCEPT !.exc = e]

\* lines 177-193
TransitiveGauges(quorum) ==
    IF "transitive" \notin DOMAIN quorum THEN <<>>
    ELSE LET t == quorum["transitive"] IN
         << [name |-> N_TRANSITIVE_INTERSECTION,
             val |-> IF "intersection" \notin DOMAIN t THEN KeyError
                     ELSE IF t.intersection THEN One ELSE Zero],
            [name |-> N_TRANSITIVE_LAST_CHECK_LEDGER, val |-> Lookup(t, "last_check_ledger")],
            [name |-> N_TRANSITIVE_NODE_COUNT, val |-> Lookup(t, "node_count")] >>

\* lines 195-218.  strptime raises ValueError on a startedOn that is not
\* %Y-%m-%dT%H:%M:%SZ; a well-formed one is given with its epoch seconds.
TailGauges(info) ==
    << [name |-> N_PEERS_AUTHENTICATED_COUNT, val |-> Lookup(info.peers, "authenticated_count")],
       [name |-> N_PEERS_PENDING_COUNT, val |-> Lookup(info.peers, "pending_count")],
       [name |-> N_PROTOCOL_VERSION, val |-> Ok(Num(info.protocol_version))],
       [name |-> N_SYNCED, val |-> IF info.state = "Synced!" THEN One ELSE Zero],
       [name |-> N_STARTED_ON,
        val |-> IF info.startedOn.wellformed THEN Ok(Num(info.startedOn.epoch))
                ELSE ValueError] >>

\* lines 151-218, for an info dict that has every required key; t is the
\* outcome of lines 167-170
InfoMetrics(st, thread, info, labels, t) ==
    LET s1 == SetGauges(st, thread, labels, GaugesOf(info.ledger, ledger_metrics))
        s2 == Then(s1, t.exc)
        s3 == SetGauges(s2, thread, labels, GaugesOf(t.tmp, quorum_metrics))
        s4 == SetGauges(s3, thread, labels, TransitiveGauges(info.quorum))
    IN  SetGauges(s4, thread, labels, TailGauges(info))

(* ------------------------- what the upstream sends ---------------------- *)

RawNames ==
    { <<"a", ".", "b">>,
      <<"A", "-", "b">>,
      <<"x">>,
      <<"x", "_", "s", "e", "c", "o", "n", "d", "s">>,
      <<"x", ".", "s", "e", "c", "o", "n", "d", "s", ".", "c", "o", "u", "n", "t">> }

\* p75 and p99 stand for the keys '75%' and '99%'
TimerBodies ==
    { [type |-> "timer", count |-> Num(10), sum |-> <<51, 1>>, mean |-> <<5, 1>>,
       duration_unit |-> u, p75 |-> <<4, 1>>, p99 |-> <<9, 1>>]
         : u \in time_units \cup {"fortnight"} }
    \cup
    { [type |-> "timer", count |-> Num(10), mean |-> <<25, 2>>,
       duration_unit |-> u, p75 |-> <<4, 1>>, p99 |-> <<9, 1>>]
         : u \in {"h", "us"} }

EntryBodies ==
    { [type |-> "counter", count |-> Num(42)],
      [type |-> "meter", count |-> Num(7)],
      [type |-> "histogram", count |-> Num(5)] }
    \cup TimerBodies

\* the entries tried under each raw name: everything under a.b, every timer
\* under x, and an entry of another kind under the names that collide with them
BodiesFor(k) ==
    IF k = <<"a", ".", "b">> THEN EntryBodies
    ELSE IF k = <<"x">> THEN TimerBodies \cup {[type |-> "counter", count |-> Num(42)]}
    ELSE IF k = <<"A", "-", "b">>
    THEN {[type |-> "counter", count |-> Num(42)], [type |-> "meter", count |-> Num(7)]}
    ELSE {[type |-> "meter", count |-> Num(7)], [type |-> "histogram", count |-> Num(5)]}

\* the metrics dicts of at most n entries
Snapshots(n) ==
    UNION { {m \in [ks -> EntryBodies] : \A k \in ks : m[k] \in BodiesFor(k)}
              : ks \in {S \in SUBSET RawNames : Cardinality(S) <= n} }

MetricsReplies(n) ==
    {TransportError, NotJson, Json(NoJson)}
    \cup {Json([k \in {"metrics"} |-> m]) : m \in Snapshots(n)}

BUILD_V ==
    <<"v", "1", "1", ".", "1", ".", "0">>

BUILD_RC ==
    <<"s", "t", "e", "l", "l", "a", "r", "-", "c", "o", "r", "e", " ", "1", "1",
      ".", "1", ".", "0", "-", "r", "c", "2", " ", "(", "a", "b", "c", ")">>

BUILD_GARBAGE ==
    <<"g", "a", "r", "b", "a", "g", "e">>

InfoDoc(i) == Json([k \in {"info"} |-> i])

\* what the scrapes of each specification are sent as metrics
OneEntryReplies == MetricsReplies(1)

ManyEntryReplies == MetricsReplies(MaxEntries)

\* replies to the GET of get_labels: only the build member is read
LabelReplies ==
    {TransportError, NotJson, InfoDoc(NoJson)}
    \cup {InfoDoc([build |-> b]) : b \in {BUILD_V, BUILD_RC, BUILD_GARBAGE}}

QuorumValues ==
    { [agree |-> 3, delayed |-> 0, disagree |-> 0, fail_at |-> 2, missing |-> 1],
      [agree |-> 4, delayed |-> 1, disagree |-> 2, fail_at |-> 3, missing |-> 0] }

Transitive(b) ==
    [intersection |-> b, last_check_ledger |-> 24, node_count |-> 21]

QSet(v) == [k \in {"qset"} |-> v]

Legacy(v) == [k \in {"758110"} |-> v]

With(d, k, v) == [x \in DOMAIN d \cup {k} |-> IF x = k THEN v ELSE d[x]]

Without(d, k) == [x \in DOMAIN d \ {k} |-> d[x]]

Quorums ==
    {QSet(v) : v \in QuorumValues} \cup {Legacy(v) : v \in QuorumValues}
    \cup {With(QSet(v), "transitive", Transitive(b)) : v \in QuorumValues, b \in BOOLEAN}
    \cup {With(Legacy(v), "transitive", Transitive(TRUE)) : v \in QuorumValues}
    \cup {NoJson}

InfoOf(q, state, started) ==
    [ledger |-> [age |-> 3, baseFee |-> 100, baseReserve |-> 5000000,
                 closeTime |-> 1572000000, maxTxSetSize |-> 1000, num |-> 25,
                 version |-> 12],
     peers |-> [authenticated_count |-> 8, pending_count |-> 2],
     protocol_version |-> 12,
     quorum |-> q,
     startedOn |-> started,
     state |-> state,
     build |-> BUILD_V]

StartedOk == [wellformed |-> TRUE, epoch |-> 1571990000]

StartedMalformed == [wellformed |-> FALSE, epoch |-> 0]

CompleteInfos ==
    {InfoOf(q, s, StartedOk) : q \in Quorums, s \in {"Synced!", "Catching up"}}
    \cup {InfoOf(QSet(v), "Synced!", StartedMalformed) : v \in QuorumValues}

IncompleteInfos ==
    {Without(InfoOf(QSet(v), "Synced!", StartedOk), k) : v \in QuorumValues, k \in info_keys}

InfoReplies ==
    {TransportError, NotJson, Json(NoJson)}
    \cup {InfoDoc(i) : i \in CompleteInfos \cup IncompleteInfos}

(* -------------------------------- state -------------------------------- *)

VARIABLES
    pyMajor,        \* major version of the interpreter running the exporter
    pc,             \* per request: where its handler is
    trace,          \* per request: the phases it went through
    labelsResp,     \* per request: the reply get_labels saw
    labels,         \* per request: self.labels
    self_registry,  \* per request: the object self.registry refers to (0: none)
    registries,     \* per registry object: its collectors, in registration order
    metrics,        \* per request: the local metrics
    pending,        \* per request: keys the for loop has not reached
    info,           \* per request: the local info
    exc,            \* per request: the exception that left do_GET
    excAt,          \* per request: the part of do_GET that raised it
    excKey,         \* per request: the key k of the loop when it was raised
    warned,         \* per request: the WARNING line was printed
    output,         \* per request: the local output
    response        \* per request: what was written to the client

vars ==
    <<pyMajor, pc, trace, labelsResp, labels, self_registry, registries, metrics,
      pending, info, exc, excAt, excKey, warned, output, response>>

PythonVersions == {2, 3}

NoResponse == [status |-> 0, content_type |-> "", body |-> <<>>]

NoReply == [status |-> "none", json |-> NoJson]

Init ==
    /\ pyMajor \in PythonVersions
    /\ pc = [r \in Requests |-> "Idle"]
    /\ trace = [r \in Requests |-> <<"Idle">>]
    /\ labelsResp = [r \in Requests |-> NoReply]
    /\ labels = [r \in Requests |-> <<>>]
    /\ self_registry = [r \in Requests |-> 0]
    /\ registries = [id \in Requests |-> <<>>]
    /\ metrics = [r \in Requests |-> NoJson]
    /\ pending = [r \in Requests |-> {}]
    /\ info = [r \in Requests |-> NoJson]
    /\ exc = [r \in Requests |-> "none"]
    /\ excAt = [r \in Requests |-> "none"]
    /\ excKey = [r \in Requests |-> <<>>]
    /\ warned = [r \in Requests |-> FALSE]
    /\ output = [r \in Requests |-> <<>>]
    /\ response = [r \in Requests |-> NoResponse]

(* ------------------------------- actions -------------------------------- *)

SharedRegistry(r) == 1

\* line 100: CollectorRegistry() is a new object on every call
NewRegistry(r) == r

Goto(r, p) ==
    /\ pc' = [pc EXCEPT ![r] = p]
    /\ trace' = [trace EXCEPT ![r] = Append(@, p)]

\* an exception leaves do_GET: the server's thread logs it and closes the
\* connection; nothing was written to the client
Crash(r, e, at, k) ==
    /\ Goto(r, "Crashed")
    /\ exc' = [exc EXCEPT ![r] = e]
    /\ excAt' = [excAt EXCEPT ![r] = at]
    /\ excKey' = [excKey EXCEPT ![r] = k]

NoCrash == UNCHANGED <<exc, excAt, excKey>>

\* lines 88-102 (called at line 105), with the GET of get_labels
set_vars(r, replies) ==
    /\ pc[r] = "Idle"
    /\ self_registry' = [self_registry EXCEPT ![r] = NewRegistry(r)]
    /\ \E reply \in replies :
          /\ labelsResp' = [labelsResp EXCEPT ![r] = reply]
          /\ labels' = [labels EXCEPT ![r] = get_labels(reply)]
    /\ Goto(r, "LabelsResolved")
    /\ NoCrash
    /\ UNCHANGED <<pyMajor, registries, metrics, pending, info, warned, output, response>>

\* lines 106-107
FetchMetrics(r, replies) ==
    /\ pc[r] = "LabelsResolved"
    /\ \E reply \in replies :
          IF reply.status = "transport_error"
          THEN Crash(r, "ConnectionError", "metrics_fetch", <<>>) /\ UNCHANGED <<metrics, pending>>
          ELSE IF reply.status = "not_json"
          THEN Crash(r, "ValueError", "metrics_fetch", <<>>) /\ UNCHANGED <<metrics, pending>>
          ELSE IF "metrics" \notin DOMAIN reply.json
          THEN Crash(r, "KeyError", "metrics_fetch", <<>>) /\ UNCHANGED <<metrics, pending>>
          ELSE /\ metrics' = [metrics EXCEPT ![r] = reply.json.metrics]
               /\ pending' = [pending EXCEPT ![r] = DOMAIN reply.json.metrics]
               /\ Goto(r, "MetricsFetched")
               /\ NoCrash
    /\ UNCHANGED <<pyMajor, labelsResp, labels, self_registry, registries, info,
                   warned, output, response>>

\* lines 109-142: one iteration of the loop, for a key the dict hands out next
TranslateOne(r) ==
    /\ pc[r] = "MetricsFetched"
    /\ \E k \in pending[r] :
       LET id == self_registry[r]
           st == TranslateEntry([reg |-> registries[id], exc |-> "none"], r, k,
                                metrics[r][k], labels[r])
       IN  /\ registries' = [registries EXCEPT ![id] = st.reg]
           /\ pending' = [pending EXCEPT ![r] = @ \ {k}]
           /\ IF st.exc # "none"
              THEN Crash(r, st.exc, "metrics_loop", k)
              ELSE UNCHANGED <<pc, trace>> /\ NoCrash
    /\ UNCHANGED <<pyMajor, labelsResp, labels, self_registry, metrics, info,
                   warned, output, response>>

\* lines 145-218, entered when the loop is over
InfoPhase(r, replies) ==
    /\ pc[r] = "MetricsFetched"
    /\ pending[r] = {}
    /\ \E reply \in replies :
       IF reply.status # "json" \/ "info" \notin DOMAIN reply.json
       THEN /\ Crash(r, CASE reply.status = "transport_error" -> "ConnectionError"
                          [] reply.status = "not_json" -> "ValueError"
                          [] OTHER -> "KeyError",
                     "info_fetch", <<>>)
            /\ UNCHANGED <<registries, info, warned>>
       ELSE IF ~(info_keys \subseteq DOMAIN reply.json.info)
       THEN /\ warned' = [warned EXCEPT ![r] = TRUE]
            /\ info' = [info EXCEPT ![r] = reply.json.info]
            /\ Goto(r, "Returned")
            /\ NoCrash
            /\ UNCHANGED registries
       ELSE \E t \in quorum_tmp(reply.json.info.quorum, pyMajor) :
              LET id == self_registry[r]
                  st == InfoMetrics([reg |-> registries[id], exc |-> "none"], r,
                                    reply.json.info, labels[r], t)
              IN  /\ registries' = [registries EXCEPT ![id] = st.reg]
                  /\ info' = [info EXCEPT ![r] = reply.json.info]
                  /\ UNCHANGED warned
                  /\ IF st.exc # "none"
                     THEN Crash(r, st.exc, "info_metrics", <<>>)
                     ELSE Goto(r, "Translated") /\ NoCrash
    /\ UNCHANGED <<pyMajor, labelsResp, labels, self_registry, metrics, pending,
                   output, response>>

\* line 220
Encode(r) ==
    /\ pc[r] = "Translated"
    /\ output' = [output EXCEPT ![r] = generate_latest(registries[self_registry[r]])]
    /\ Goto(r, "Encoded")
    /\ UNCHANGED <<pyMajor, labelsResp, labels, self_registry, registries, metrics,
                   pending, info, exc, excAt, excKey, warned, response>>

SendBeforeEncode(r) ==
    /\ pc[r] = "Translated"
    /\ response' = [response EXCEPT ![r] =
                       [status |-> 200, content_type |-> CONTENT_TYPE_LATEST,
                        body |-> output[r]]]
    /\ Goto(r, "Sent")
    /\ UNCHANGED <<pyMajor, labelsResp, labels, self_registry, registries, metrics,
                   pending, info, exc, excAt, excKey, warned, output>>

\* lines 221-224
Send(r) ==
    /\ pc[r] = "Encoded"
    /\ response' = [response EXCEPT ![r] =
                       [status |-> 200, content_type |-> CONTENT_TYPE_LATEST,
                        body |-> output[r]]]
    /\ Goto(r, "Sent")
    /\ UNCHANGED <<pyMajor, labelsResp, labels, self_registry, registries, metrics,
                   pending, info, exc, excAt, excKey, warned, output>>

(* ---------------------------- specifications ---------------------------- *)

\* one scrape; every reply of the info endpoint, metrics dicts of up to one entry
Next ==
    \/ set_vars(1, LabelReplies)
    \/ FetchMetrics(1, OneEntryReplies)
    \/ TranslateOne(1)
    \/ InfoPhase(1, InfoReplies)
    \/ Encode(1)
    \/ Send(1)

Spec == Init /\ [][Next]_vars

\* a few replies of the info endpoint: one of each outcome
FewLabelReplies ==
    {TransportError, InfoDoc([build |-> BUILD_RC])}

V3 ==
    [agree |-> 3, delayed |-> 0, disagree |-> 0, fail_at |-> 2, missing |-> 1]

TwoInfoReplies ==
    { InfoDoc(Without(InfoOf(QSet(V3), "Synced!", StartedOk), "peers")),
      InfoDoc(InfoOf(QSet(V3), "Synced!", StartedOk)) }

FewInfoReplies ==
    TwoInfoReplies
    \cup {TransportError, InfoDoc(InfoOf(Legacy(V3), "Synced!", StartedOk))}

\* metric translation does not read the interpreter's version
InitTranslate ==
    Init /\ pyMajor = 3

\* one scrape; every metrics dict of up to MaxEntries entries
NextTranslate ==
    \/ set_vars(1, FewLabelReplies)
    \/ FetchMetrics(1, ManyEntryReplies)
    \/ TranslateOne(1)
    \/ InfoPhase(1, TwoInfoReplies)
    \/ Encode(1)
    \/ Send(1)

SpecTranslate == InitTranslate /\ [][NextTranslate]_vars

FewMetricsReplies ==
    { TransportError,
      Json([k \in {"metrics"} |-> [n \in {<<"x">>} |-> [type |-> "meter", count |-> Num(7)]]]),
      Json([k \in {"metrics"} |->
              [n \in {<<"a", ".", "b">>} |-> [type |-> "counter", count |-> Num(42)]]]) }

\* every request in its own thread, steps interleaved in any order
NextConcurrent ==
    \E r \in Requests :
        \/ set_vars(r, FewLabelReplies)
        \/ FetchMetrics(r, FewMetricsReplies)
        \/ TranslateOne(r)
        \/ InfoPhase(r, FewInfoReplies)
        \/ Encode(r)
        \/ Send(r)

SpecConcurrent == Init /\ [][NextConcurrent]_vars

(* -------------------------------- claims -------------------------------- *)

\* the registry a request works on; a request that has not run set_vars has none
RegistryOf(r) ==
    IF self_registry[r] = 0 THEN <<>> ELSE registries[self_registry[r]]

IsPrefix(s, t) ==
    Len(s) <= Len(t) /\ SubSeq(t, 1, Len(s)) = s

\* the info phase was skipped (a required key is missing) or its fetch or
\* decode failed
InfoPhaseSkipped(r) ==
    \/ pc[r] = "Returned"
    \/ pc[r] = "Crashed" /\ excAt[r] = "info_fetch"

\* C1: when the info phase is skipped because a required key is missing, or
\* because the info fetch or decode fails, the request still answers 200 with
\* every metric that the metrics loop produced.
C1_PartialResultsReturned ==
    \A r \in Requests :
        InfoPhaseSkipped(r) =>
            /\ response[r].status = 200
            /\ \A i \in 1..Len(RegistryOf(r)) :
                  \E j \in 1..Len(response[r].body) :
                      response[r].body[j].name = RegistryOf(r)[i].name

EmptyLabels == << <<>>, <<>>, <<>>, <<>> >>

\* the reply of the info endpoint that set_vars got gives no version: the
\* request failed, the body is not JSON, info or build is absent, or the
\* build string does not match
LabelResolutionFailed(r) ==
    /\ labelsResp[r] # NoReply
    /\ \/ labelsResp[r].status # "json"
       \/ "info" \notin DOMAIN labelsResp[r].json
       \/ "build" \notin DOMAIN labelsResp[r].json.info
       \/ ~build_regex_match(labelsResp[r].json.info.build).matched

\* C2: when label resolution fails the four labels are the empty string, and
\* the scrape is not aborted by it: no sample is refused for its label values
\* and every sample emitted carries the four empty labels.
C2_EmptyLabelsOnFailure ==
    \A r \in Requests :
        LabelResolutionFailed(r) =>
            /\ labels[r] = EmptyLabels
            /\ ~(pc[r] = "Crashed" /\ exc[r] = "ValueError" /\ Len(labels[r]) # 4)
            /\ \A i \in 1..Len(RegistryOf(r)) :
                  \A j \in 1..Len(RegistryOf(r)[i].samples) :
                      SubSeq(RegistryOf(r)[i].samples[j].labels, 1, 4) = EmptyLabels

\* C3: when the metrics endpoint cannot be fetched or decoded, the client gets
\* an error response: something was written, and it is not a 200.
C3_ErrorResponseOnMetricsFailure ==
    \A r \in Requests :
        (pc[r] = "Crashed" /\ excAt[r] = "metrics_fetch") =>
            /\ response[r] # NoResponse
            /\ response[r].status # 200

PhaseOrder ==
    <<"Idle", "LabelsResolved", "MetricsFetched", "Translated", "Encoded", "Sent">>

\* C4: a request goes through its phases in one order: labels are resolved,
\* then the metrics are fetched, then every sample is registered, then the
\* registry is encoded, and only then the 200 is written, with the encoded
\* registry as its body.  A request that stops early stopped along that order.
C4_PhaseOrder ==
    \A r \in Requests :
        /\ \/ IsPrefix(trace[r], PhaseOrder)
           \/ /\ Len(trace[r]) >= 2
              /\ IsPrefix(SubSeq(trace[r], 1, Len(trace[r]) - 1), PhaseOrder)
              /\ (pc[r] = "Crashed" \/ pc[r] = "Returned")
        /\ pc[r] = trace[r][Len(trace[r])]
        /\ (pc[r] # "Idle") => labelsResp[r] # NoReply
        /\ (metrics[r] # NoJson) => labelsResp[r] # NoReply
        /\ (pc[r] = "Encoded" \/ pc[r] = "Sent") =>
               output[r] = generate_latest(RegistryOf(r))
        /\ (response[r] # NoResponse) =>
               /\ trace[r] = PhaseOrder
               /\ response[r].status = 200
               /\ response[r].body = generate_latest(RegistryOf(r))

\* a full scrape was answered: labels, one translated entry, the info gauges
C4_Witness ==
    \E r \in Requests :
        /\ response[r].status = 200
        /\ DOMAIN metrics[r] # {}
        /\ Len(response[r].body) > Len(RegistryOf(r))

\* C5: every sample of a request carries the four version labels, with the
\* values that were resolved once at the start of that request; the only
\* other label is the quantile of a timer's gauge.
C5_SameLabelsOnEverySample ==
    \A r \in Requests :
        \A i \in 1..Len(RegistryOf(r)) :
            LET c == RegistryOf(r)[i] IN
            /\ SubSeq(c.labelnames, 1, 4) = label_names
            /\ \A j \in 1..Len(c.samples) :
                  /\ labels[r] = get_labels(labelsResp[r])
                  /\ Len(labels[r]) = 4
                  /\ SubSeq(c.samples[j].labels, 1, 4) = labels[r]
                  /\ Len(c.samples[j].labels) = Len(c.labelnames)
                  /\ \/ Len(c.labelnames) = 4
                     \/ /\ c.labelnames = summary_label_names
                        /\ \/ c.samples[j].labels[5] = Q075
                           \/ c.samples[j].labels[5] = Q099

\* a timer and the info gauges were emitted under a resolved version
C5_Witness ==
    \E r \in Requests :
        /\ pc[r] = "Sent"
        /\ labels[r][1] # <<>>
        /\ \E i \in 1..Len(RegistryOf(r)) :
              /\ RegistryOf(r)[i].labelnames = summary_label_names
              /\ Len(RegistryOf(r)[i].samples) = 2
        /\ \E i \in 1..Len(RegistryOf(r)) : RegistryOf(r)[i].name = N_SYNCED

\* the entries of the snapshot that the loop has been through
Translated(r) ==
    DOMAIN metrics[r] \ pending[r]

CrashedInLoop(r) ==
    pc[r] = "Crashed" /\ excAt[r] = "metrics_loop"

\* the loop went through entry k and did not raise in it
Done(r, k) ==
    k \in Translated(r) /\ ~(CrashedInLoop(r) /\ excKey[r] = k)

\* the registry of r holds one collector of that name, and it is this one
ExactlyOne(r, name, kind, labelnames, samples) ==
    /\ Cardinality({i \in 1..Len(RegistryOf(r)) : RegistryOf(r)[i].name = name}) = 1
    /\ \E i \in 1..Len(RegistryOf(r)) :
          /\ RegistryOf(r)[i].name = name
          /\ RegistryOf(r)[i].kind = kind
          /\ RegistryOf(r)[i].labelnames = labelnames
          /\ RegistryOf(r)[i].samples = samples

Sample(l, v) == [labels |-> l, value |-> v]

\* the factor table of the specification, as exact decimals
SecondsFactor(u) ==
    CASE u = "d"  -> Num(86400)
      [] u = "h"  -> Num(3600)
      [] u = "m"  -> Num(60)
      [] u = "s"  -> Num(1)
      [] u = "ms" -> <<1, 3>>
      [] u = "us" -> <<1, 6>>
      [] u = "ns" -> <<1, 9>>

RecognizedUnit(u) ==
    u = "d" \/ u = "h" \/ u = "m" \/ u = "s" \/ u = "ms" \/ u = "us" \/ u = "ns"

toSeconds(v, u) == Product(v, SecondsFactor(u))

\* C7: a timer entry with a recognized unit yields exactly a counter
\* <name>_seconds_count = count, a counter <name>_seconds_sum = toSeconds(sum)
\* (toSeconds(mean * count) without a sum) and a gauge <name>_seconds with the
\* two samples quantile 0.75 = toSeconds(p75) and quantile 0.99 = toSeconds(p99),
\* toSeconds being the fixed factor table; the values are a function of the entry.
C7_TimerTranslation ==
    \A r \in Requests :
        \A k \in DOMAIN metrics[r] :
            LET e == metrics[r][k]
                base == metric_name(k) \o SUFFIX_SECONDS
            IN  (Done(r, k) /\ e.type = "timer" /\ RecognizedUnit(e.duration_unit)) =>
                  LET u == e.duration_unit
                      total == IF "sum" \in DOMAIN e THEN e.sum
                               ELSE Product(e.mean, e.count)
                  IN  /\ ExactlyOne(r, base \o SUFFIX_COUNT, "counter", label_names,
                                    <<Sample(labels[r], e.count)>>)
                      /\ ExactlyOne(r, base \o SUFFIX_SUM, "counter", label_names,
                                    <<Sample(labels[r], toSeconds(total, u))>>)
                      /\ ExactlyOne(r, base, "gauge", label_names \o <<"quantile">>,
                                    << Sample(labels[r] \o <<Q075>>, toSeconds(e.p75, u)),
                                       Sample(labels[r] \o <<Q099>>, toSeconds(e.p99, u)) >>)

\* a scrape was answered that had a timer in milliseconds and a timer in
\* microseconds without a sum
C7_Witness ==
    \E r \in Requests :
        /\ pc[r] = "Sent"
        /\ \E k \in DOMAIN metrics[r] :
              /\ metrics[r][k].type = "timer"
              /\ metrics[r][k].duration_unit = "ms"
        /\ \E k \in DOMAIN metrics[r] :
              /\ metrics[r][k].type = "timer"
              /\ metrics[r][k].duration_unit = "us"
              /\ "sum" \notin DOMAIN metrics[r][k]

\* the output names the specification gives an entry
OutNames(k, e) ==
    IF e.type = "timer"
    THEN { metric_name(k) \o SUFFIX_SECONDS,
           metric_name(k) \o SUFFIX_SECONDS \o SUFFIX_COUNT,
           metric_name(k) \o SUFFIX_SECONDS \o SUFFIX_SUM }
    ELSE IF e.type = "counter" \/ e.type = "meter" THEN {metric_name(k)}
    ELSE {}

NamesOf(r, ks) ==
    UNION {OutNames(k, metrics[r][k]) : k \in ks}

UnrecognizedKind(e) ==
    e.type # "counter" /\ e.type # "meter" /\ e.type # "timer"

\* C8: a counter entry yields exactly one gauge of the normalized name with
\* value count, a meter entry exactly one counter of the normalized name with
\* value count, an entry of any other kind than counter, meter, timer nothing:
\* it does not abort the scrape, and the collectors of the loop are exactly
\* those of the other entries.
C8_KindDispatch ==
    \A r \in Requests :
        /\ \A k \in DOMAIN metrics[r] :
              LET e == metrics[r][k] IN
              /\ (Done(r, k) /\ e.type = "counter") =>
                     ExactlyOne(r, metric_name(k), "gauge", label_names,
                                <<Sample(labels[r], e.count)>>)
              /\ (Done(r, k) /\ e.type = "meter") =>
                     ExactlyOne(r, metric_name(k), "counter", label_names,
                                <<Sample(labels[r], e.count)>>)
              /\ (k \in Translated(r) /\ UnrecognizedKind(e)) => Done(r, k)
        /\ ~CrashedInLoop(r) =>
              LET n == Cardinality(NamesOf(r, Translated(r))) IN
              /\ Len(RegistryOf(r)) >= n
              /\ {RegistryOf(r)[i].name : i \in 1..n} = NamesOf(r, Translated(r))
              /\ \A i \in (n + 1)..Len(RegistryOf(r)) :
                    /\ pending[r] = {}
                    /\ RegistryOf(r)[i].name \notin NamesOf(r, DOMAIN metrics[r])

\* a scrape was answered that had a counter next to an entry of another kind
C8_Witness ==
    \E r \in Requests :
        /\ pc[r] = "Sent"
        /\ \E k \in DOMAIN metrics[r] : metrics[r][k].type = "counter"
        /\ \E k \in DOMAIN metrics[r] : UnrecognizedKind(metrics[r][k])

\* two entries of the snapshot have an output name in common
Collides(r) ==
    \E k1 \in DOMAIN metrics[r] :
        \E k2 \in DOMAIN metrics[r] \ {k1} :
            OutNames(k1, metrics[r][k1]) \cap OutNames(k2, metrics[r][k2]) # {}

\* C10: a registry never holds two metrics of one name; when two entries of
\* a snapshot have an output name in common the registration of the second
\* fails (ValueError in the loop, at an entry that shares a name with one
\* already translated) and the scrape ends without a 200.
C10_NoDuplicateNames ==
    \A r \in Requests :
        /\ \A i \in 1..Len(RegistryOf(r)) :
              \A j \in 1..Len(RegistryOf(r)) :
                  RegistryOf(r)[i].name = RegistryOf(r)[j].name => i = j
        /\ Collides(r) =>
              /\ response[r].status # 200
              /\ (pending[r] = {}) => pc[r] = "Crashed"
        /\ (CrashedInLoop(r) /\ exc[r] = "ValueError" /\ Len(labels[r]) = 4) =>
              \E k \in Translated(r) \ {excKey[r]} :
                  OutNames(k, metrics[r][k])
                      \cap OutNames(excKey[r], metrics[r][excKey[r]]) # {}

\* the raw names a.b and A-b were in one snapshot and the second registration failed
C10_Witness ==
    \E r \in Requests :
        /\ CrashedInLoop(r)
        /\ exc[r] = "ValueError"
        /\ Len(labels[r]) = 4
        /\ DOMAIN metrics[r] = {<<"a", ".", "b">>, <<"A", "-", "b">>}
        /\ Len(RegistryOf(r)) = 1

\* C6: requests served at the same time, in any interleaving, each work on
\* a registry and a label set of their own: a registry holds only what its own
\* request registered, no two requests have the same registry, and a response
\* is the encoding of the registry of its own request.
C6_RegistryPerRequest ==
    \A r \in Requests :
        /\ \A i \in 1..Len(RegistryOf(r)) : RegistryOf(r)[i].thread = r
        /\ \A q \in Requests \ {r} :
              self_registry[r] # 0 => self_registry[q] # self_registry[r]
        /\ (pc[r] # "Idle") => labels[r] = get_labels(labelsResp[r])
        /\ (response[r].status = 200) =>
              response[r].body = generate_latest(RegistryOf(r))

\* two requests were both answered, with different metrics
C6_Witness ==
    \E r \in Requests :
        \E q \in Requests \ {r} :
            /\ response[r].status = 200
            /\ response[q].status = 200
            /\ DOMAIN metrics[r] # DOMAIN metrics[q]
            /\ response[r].body # response[q].body

Finished(r) ==
    pc[r] = "Sent" \/ pc[r] = "Crashed" \/ pc[r] = "Returned"

\* quorum q is the legacy mapping with the one entry <nodeid>: v
LegacyOf(q, v) ==
    /\ Cardinality(DOMAIN q) = 1
    /\ "qset" \notin DOMAIN q
    /\ \A k \in DOMAIN q : q[k] = v

\* two scrapes that got the same answers, except that the quorum of the first
\* is {qset: v} and the quorum of the second is {<nodeid>: v}
SameButQuorumShape(r1, r2) ==
    /\ labels[r1] = labels[r2]
    /\ metrics[r1] = metrics[r2]
    /\ info_keys \subseteq DOMAIN info[r1]
    /\ info_keys \subseteq DOMAIN info[r2]
    /\ Without(info[r1], "quorum") = Without(info[r2], "quorum")
    /\ DOMAIN info[r1].quorum = {"qset"}
    /\ LegacyOf(info[r2].quorum, info[r1].quorum.qset)

\* C9: an info snapshot whose quorum is {qset: v} and one whose quorum is a
\* legacy mapping with the single entry {<nodeid>: v} give the same five quorum
\* gauges, and the rest of the scrape goes the same way for both.
C9_QuorumShapesEquivalent ==
    \A r1 \in Requests :
        \A r2 \in Requests :
            (Finished(r1) /\ Finished(r2) /\ SameButQuorumShape(r1, r2)) =>
                /\ pc[r1] = pc[r2]
                /\ response[r1] = response[r2]
                /\ \A i \in 1..Len(quorum_metrics) :
                      \E j \in 1..Len(RegistryOf(r2)) :
                          /\ RegistryOf(r2)[j].name = quorum_metrics[i].name
                          /\ \E l \in 1..Len(RegistryOf(r1)) :
                                /\ RegistryOf(r1)[l].name = quorum_metrics[i].name
                                /\ RegistryOf(r1)[l].samples = RegistryOf(r2)[j].samples

\* the same two scrapes under Python 2 only
C9_Python2Only ==
    pyMajor = 2 => C9_QuorumShapesEquivalent

\* the two shapes met under Python 2
C9_Python2Witness ==
    /\ pyMajor = 2
    /\ \E r1 \in Requests :
          \E r2 \in Requests :
              Finished(r1) /\ Finished(r2) /\ SameButQuorumShape(r1, r2)

====
